---- MODULE Spec2Model ----
(***************************************************************************)
(* The development server (bundle cache, request routing, source watcher)  *)
(* and the production build script of subscribedev-boilerplate.            *)
(*                                                                         *)
(* Strings the code inspects with startsWith/endsWith (URL paths, file     *)
(* paths) are sequences of one-character strings.  File contents, bundle   *)
(* texts and response bodies are sequences of tokens.  A value that may be *)
(* undefined/null in JavaScript is <<>> (absent) or <<v>> (present).       *)
(***************************************************************************)
EXTENDS Integers, Sequences, FiniteSets, TLC

\* ---------------------------------------------------------------- bounds
MaxReq == 3          \* requests the server receives in one run
MaxInFlight == 2     \* requests whose handlers are in progress at once
MaxChanges == 1      \* file-system changes in one run

\* ------------------------------------------------------- string helpers
StartsWith(s, pre) == Len(s) >= Len(pre) /\ SubSeq(s, 1, Len(pre)) = pre

EndsWith(s, suf) ==
    Len(s) >= Len(suf) /\ SubSeq(s, Len(s) - Len(suf) + 1, Len(s)) = suf

\* the value is pasted into the table as it is, unquoted
JSONstringifyRaw(s) == s

\* JSON.stringify of a string: the string literal, quotes included
JSONstringify(s) == "\"" \o s \o "\""

\* process.env.X || "" : undefined and "" are both falsy
OrEmpty(opt) == IF opt = <<>> \/ opt[1] = "" THEN "" ELSE opt[1]

\* only null and undefined count as no filename
TruthyNotNull(opt) == opt # <<>>

\* JavaScript truthiness of an optional string (the watcher's filename)
Truthy(opt) == opt # <<>> /\ opt[1] # ""

\* ------------------------------------------------------------- the paths
RootPath == <<"/">>
PublicPrefix == <<"/","p","u","b","l","i","c","/">>
SrcPrefix == <<"/","s","r","c","/">>
DotCss == <<".","c","s","s">>
DotTsx == <<".","t","s","x">>
DotTs == <<".","t","s">>

MainPath == <<"/","s","r","c","/","m","a","i","n",".","t","s","x">>
UtilPath == <<"/","s","r","c","/","u","t","i","l",".","t","s">>
CssPath == <<"/","s","r","c","/","i","n","d","e","x",".","c","s","s">>
NotesPath == <<"/","s","r","c","/","n","o","t","e","s",".","m","d">>
LogoPath == <<"/","p","u","b","l","i","c","/","l","o","g","o",".","s","v","g">>
MissingPath == <<"/","n","o","n","e","x","i","s","t","e","n","t","/","p","a","t","h">>

\* the URL paths requests are drawn from
Paths == {RootPath, LogoPath, MainPath, UtilPath, CssPath, NotesPath, MissingPath}

\* const filePath = "." + path
FilePath(p) == <<".">> \o p

IndexHtml == <<"i","n","d","e","x",".","h","t","m","l">>

\* the files of the working directory the model tracks
Files == {IndexHtml} \cup {FilePath(p) : p \in Paths \ {RootPath, MissingPath}}

SrcFiles == {f \in Files : StartsWith(f, FilePath(SrcPrefix))}

\* the filename fs.watch reports for a file under ./src (relative to ./src)
WatchName(f) ==
    CASE f = FilePath(MainPath) -> "main.tsx"
      [] f = FilePath(UtilPath) -> "util.ts"
      [] f = FilePath(CssPath) -> "index.css"
      [] OTHER -> "notes.md"

\* --------------------------------------------------------- file contents
PubSym == "import.meta.env.VITE_SUBSCRIBEDEV_PUBLIC_API_KEY"
TokSym == "import.meta.env.VITE_SUBSCRIBEDEV_LOCAL_ACCESS_TOKEN"
DevSym == "import.meta.env.DEV"
ModeSym == "import.meta.env.MODE"
ProdSym == "import.meta.env.PROD"
SyntaxError == "<syntax error>"

MainV1 == <<"App1", PubSym, TokSym>>
MainV2 == <<"App2", PubSym, TokSym, DevSym>>
MainBad == <<"App3", SyntaxError>>
UtilV1 == <<"util1", ModeSym>>
UtilBad == <<SyntaxError>>
CssV1 == <<"body{}">>
CssV2 == <<"body{margin:0}">>
SrcCssRef == "/src/index.css"
SrcMainRef == "/src/main.tsx"
HtmlV1 == <<"<html>", SrcCssRef, SrcMainRef>>
HtmlV2 == <<SrcMainRef, "<body>", SrcMainRef, SrcCssRef>>
HtmlV3 == <<"<html>">>

\* the contents a file can be given
Contents(f) ==
    CASE f = FilePath(MainPath) -> {MainV1, MainV2, MainBad}
      [] f = FilePath(UtilPath) -> {UtilV1, UtilBad}
      [] f = FilePath(CssPath) -> {CssV1, CssV2}
      [] f = IndexHtml -> {HtmlV1, HtmlV2, HtmlV3}
      [] OTHER -> {<<"data">>}

NoFile == [exists |-> FALSE, data |-> <<>>]
File(c) == [exists |-> TRUE, data |-> c]

\* ------------------------------------------------------------ environment
PubValues == {<<>>, <<"pub_1">>}
TokValues == {<<>>, <<"">>, <<"tok_1">>, <<"tok_2">>}


VARIABLES
    env,          \* process.env: [pub, tok], each absent or a string
    fs,           \* the working directory: file -> [exists, data]
    bundleCache,  \* Map<string,string> as its entries in insertion order
    reqs,         \* the fetch handlers in progress: position and locals
    last,         \* the handler that returned its Response most recently
    started,      \* number of requests received so far
    events,       \* fs.watch events not yet delivered to the callback
    changes,      \* number of file-system changes so far
    built,        \* history: per entry path, the text stored since the last clear
    succeeded,    \* history: <<entry path, text>> of every build with output
    invoked,      \* history: entry paths Bun.build was ever called for
    needRebuild,  \* history: paths cleared from the cache, not looked up since
    failedSince,  \* history: paths whose last response was 500, not requested since
    clearedUpTo,  \* history: the latest change whose event cleared the cache
    cacheStamp,   \* history: per entry path, the change count its text was read at
    lastName,     \* history: <<filename>> of the last run of the watch callback
    bpc,          \* build.ts: position of the script
    bdefine,      \* build.ts: the define table handed to Bun.build
    bresult,      \* build.ts: the BuildOutput
    bhtml,        \* build.ts: the text read from ./index.html
    dist          \* build.ts: what the script has written under ./dist

srvVars == <<bundleCache, reqs, last, started, events, changes>>

histVars == <<built, succeeded, invoked, needRebuild, failedSince, clearedUpTo,
              cacheStamp, lastName>>

buildVars == <<bpc, bdefine, bresult, bhtml, dist>>

vars == <<env, fs, srvVars, histVars, buildVars>>



\* ------------------------------------------------ Map<string, string>
\* the lookup compares the key with the stored text
MapHasByValue(m, k) == \E i \in 1..Len(m) : m[i].value = k

MapHas(m, k) == \E i \in 1..Len(m) : m[i].key = k

MapGet(m, k) == m[CHOOSE i \in 1..Len(m) : m[i].key = k].value

\* set adds an entry without replacing the one of the same key
MapSetAppend(m, k, v) == Append(m, [key |-> k, value |-> v])

\* set forgets the entry
MapSetDropped(m, k, v) == m

MapSet(m, k, v) ==
    IF MapHas(m, k)
    THEN [i \in 1..Len(m) |->
            IF m[i].key = k THEN [key |-> k, value |-> v] ELSE m[i]]
    ELSE Append(m, [key |-> k, value |-> v])

MapClear(m) == <<>>

MapKeys(m) == {m[i].key : i \in 1..Len(m)}

\* ------------------------------------------- compile-time substitutions
\* the define option of the dev server's Bun.build call
DevDefine(e) ==
    (PubSym :> JSONstringify(OrEmpty(e.pub)))
    @@ (TokSym :> JSONstringify(OrEmpty(e.tok)))
    @@ (DevSym :> "true")
    @@ (ModeSym :> JSONstringify("development"))

\* the production table injects the token as the dev table does
ProdDefineWithToken(e) ==
    (PubSym :> JSONstringify(OrEmpty(e.pub)))
    @@ (TokSym :> JSONstringify(OrEmpty(e.tok)))
    @@ (DevSym :> "false")
    @@ (ModeSym :> JSONstringify("production"))
    @@ (ProdSym :> "true")

\* the define option of the production build's Bun.build call
ProdDefine(e) ==
    (PubSym :> JSONstringify(OrEmpty(e.pub)))
    @@ (TokSym :> "undefined")
    @@ (DevSym :> "false")
    @@ (ModeSym :> JSONstringify("production"))
    @@ (ProdSym :> "true")

\* ------------------------------------------------------------ Bun.build
\* define replaces each symbolic name by its literal
Substitute(text, define) ==
    [i \in 1..Len(text) |->
        IF text[i] \in DOMAIN define THEN define[text[i]] ELSE text[i]]

\* main.tsx imports util.ts; the bundle of an entry holds its dependencies
Imports(entry) == IF entry = FilePath(MainPath) THEN <<FilePath(UtilPath)>> ELSE <<>>

Modules(entry) == <<entry>> \o Imports(entry)

HasSyntaxError(text) == \E i \in 1..Len(text) : text[i] = SyntaxError

Compiles(entry, files) ==
    \A i \in 1..Len(Modules(entry)) :
        /\ files[Modules(entry)[i]].exists
        /\ ~HasSyntaxError(files[Modules(entry)[i]].data)

RECURSIVE Concat(_, _, _)
Concat(mods, files, define) ==
    IF mods = <<>> THEN <<>>
    ELSE Substitute(files[Head(mods)].data, define) \o Concat(Tail(mods), files, define)

\* The results one Bun.build call can resolve to for the tree it reads:
\* one output holding the bundled text, or, when a module is missing or does
\* not compile, no output (the promise resolves with success false or, in
\* newer Bun versions, rejects).
BunBuild(entry, files, define) ==
    IF Compiles(entry, files)
    THEN {[kind |-> "ok", outputs |-> <<Concat(Modules(entry), files, define)>>]}
    ELSE {[kind |-> "empty", outputs |-> <<>>], [kind |-> "throw", outputs |-> <<>>]}

BuildFailedMessage == "AggregateError: Bundle failed"
FailedToBundle == "Error: Failed to bundle"


\* -------------------------------------------------------------- responses
Resp(status, ctype, body) == [status |-> status, ctype |-> ctype, body |-> body]

NoResp == Resp(0, "", <<>>)

\* the final response without its status option
NotFoundOk == Resp(200, "", <<"Not Found">>)

NotFoundResp == Resp(404, "", <<"Not Found">>)

\* the error response without its status option
ErrorRespOk(err) == Resp(200, "", <<"Error bundling: " \o err>>)

ErrorResp(err) == Resp(500, "", <<"Error bundling: " \o err>>)

\* a handler that is not running; existed..ret record what a handler did
IdleReq ==
    [pc |-> "idle", path |-> <<>>, resp |-> NoResp,
     existed |-> "unknown", inv |-> 0, memo |-> <<>>, afterClear |-> FALSE,
     afterFail |-> FALSE, fresh |-> FALSE, seen |-> 0, kind |-> "none",
     outputs |-> <<>>, stamp |-> 0, ret |-> <<>>]

\* a file counts as existing once it is known, deleted or not
ExistsInTree(f) == f \in DOMAIN fs

Exists(f) == f \in DOMAIN fs /\ fs[f].exists

\* return new Response(...)
Done(q, resp) == [q EXCEPT !.pc = "done", !.resp = resp]

\* an unmatched path falls back to the root document
AfterPublicFallback(q) ==
    IF StartsWith(q.path, SrcPrefix)
    THEN [q EXCEPT !.pc = "srcExists"]
    ELSE Done(q, Resp(200, "", fs[IndexHtml].data))

\* the routes after the /public/ block: /src/ or the final 404
AfterPublic(q) ==
    IF StartsWith(q.path, SrcPrefix)
    THEN [q EXCEPT !.pc = "srcExists"]
    ELSE Done(q, NotFoundResp)

\* handler r goes on as q, or has returned and its slot is free again
Settle(r, q) ==
    IF q.pc = "done"
    THEN reqs' = [reqs EXCEPT ![r] = IdleReq] /\ last' = q
    ELSE reqs' = [reqs EXCEPT ![r] = q] /\ last' = last

\* ------------------------------------------------------ the dev server
\* fetch(req), up to its first await
ReqStart(r, p) ==
    /\ started < MaxReq
    /\ reqs[r].pc = "idle"
    /\ \A j \in 1..(r - 1) : reqs[j].pc # "idle"
    /\ started' = started + 1
    /\ failedSince' = failedSince \ {FilePath(p)}
    /\ LET q == [IdleReq EXCEPT !.path = p, !.seen = clearedUpTo,
                                !.afterFail = FilePath(p) \in failedSince] IN
       Settle(r, IF p = RootPath
                 THEN Done(q, Resp(200, "", fs[IndexHtml].data))
                 ELSE IF StartsWith(p, PublicPrefix)
                      THEN [q EXCEPT !.pc = "pubExists"]
                      ELSE AfterPublic(q))
    /\ UNCHANGED <<env, fs, bundleCache, events, changes, built, succeeded,
                   invoked, needRebuild, clearedUpTo, cacheStamp, lastName,
                   buildVars>>

\* await file.exists() of the /public/ block resolves
PublicExists(r) ==
    /\ reqs[r].pc = "pubExists"
    /\ LET q == reqs[r]
           file == FilePath(q.path) IN
       Settle(r, IF Exists(file)
                 THEN Done([q EXCEPT !.existed = "yes"], Resp(200, "", fs[file].data))
                 ELSE AfterPublic([q EXCEPT !.existed = "no"]))
    /\ UNCHANGED <<env, fs, bundleCache, started, events, changes, histVars,
                   buildVars>>

\* stylesheets are recognised by another extension
IsCssScss(filePath) == EndsWith(filePath, <<".","s","c","s","s">>)

IsCss(filePath) == EndsWith(filePath, DotCss)

\* only .tsx modules are bundled
IsScriptTsxOnly(filePath) == EndsWith(filePath, DotTsx)

IsScript(filePath) == EndsWith(filePath, DotTsx) \/ EndsWith(filePath, DotTs)

\* bundleEntry(entryPath) up to its first await: the cache check and, on a
\* miss, the call of Bun.build
bundleEntry(r, q0, entryPath) ==
    LET q == [q0 EXCEPT !.afterClear = entryPath \in needRebuild,
                        !.fresh = entryPath \notin invoked,
                        !.memo = built[entryPath]] IN
    /\ needRebuild' = needRebuild \ {entryPath}
    /\ invoked' = IF MapHas(bundleCache, entryPath)
                  THEN invoked ELSE invoked \cup {entryPath}
    /\ Settle(r, IF MapHas(bundleCache, entryPath)
                 THEN Done([q EXCEPT !.stamp = cacheStamp[entryPath],
                                     !.ret = <<MapGet(bundleCache, entryPath)>>],
                           Resp(200, "application/javascript",
                                MapGet(bundleCache, entryPath)))
                 ELSE [q EXCEPT !.pc = "build", !.inv = q.inv + 1])

\* await file.exists() of the /src/ block resolves; the handler runs on to
\* its response or to the Bun.build call
SrcExists(r) ==
    /\ reqs[r].pc = "srcExists"
    /\ LET filePath == FilePath(reqs[r].path)
           q == [reqs[r] EXCEPT !.existed = IF Exists(filePath) THEN "yes" ELSE "no"] IN
       IF Exists(filePath) /\ ~IsCss(filePath) /\ IsScript(filePath)
       THEN bundleEntry(r, q, filePath)
       ELSE /\ Settle(r, IF Exists(filePath) /\ IsCss(filePath)
                         THEN Done(q, Resp(200, "text/css", fs[filePath].data))
                         ELSE Done(q, NotFoundResp))
            /\ UNCHANGED <<invoked, needRebuild>>
    /\ UNCHANGED <<env, fs, bundleCache, started, events, changes, built,
                   succeeded, failedSince, clearedUpTo, cacheStamp, lastName,
                   buildVars>>

\* builds are serialised: a build waits for the builds of the handlers
\* before it
BuildReadSerial(r) ==
    /\ reqs[r].pc = "build"
    /\ \A j \in 1..(r - 1) : reqs[j].pc # "build"
    /\ \E res \in BunBuild(FilePath(reqs[r].path), fs, DevDefine(env)) :
          Settle(r, [reqs[r] EXCEPT !.pc = "built", !.kind = res.kind,
                                    !.outputs = res.outputs, !.stamp = changes])
    /\ UNCHANGED <<env, fs, bundleCache, started, events, changes, histVars,
                   buildVars>>

\* the pending Bun.build reads the source tree
BuildRead(r) ==
    /\ reqs[r].pc = "build"
    /\ \E res \in BunBuild(FilePath(reqs[r].path), fs, DevDefine(env)) :
          Settle(r, [reqs[r] EXCEPT !.pc = "built", !.kind = res.kind,
                                    !.outputs = res.outputs, !.stamp = changes])
    /\ UNCHANGED <<env, fs, bundleCache, started, events, changes, histVars,
                   buildVars>>

\* await Bun.build(...) settles: a rejection and the "Failed to bundle"
\* throw both reach the catch of fetch; with an output the handler goes on
\* to await its text
BuildResolve(r) ==
    /\ reqs[r].pc = "built"
    /\ LET q == reqs[r]
           ok == q.kind # "throw" /\ Len(q.outputs) > 0 IN
       /\ Settle(r, IF q.kind = "throw" THEN Done(q, ErrorResp(BuildFailedMessage))
                    ELSE IF Len(q.outputs) > 0 THEN [q EXCEPT !.pc = "text"]
                    ELSE Done(q, ErrorResp(FailedToBundle)))
       /\ succeeded' = IF ok THEN succeeded \cup {<<FilePath(q.path), q.outputs[1]>>}
                       ELSE succeeded
       /\ failedSince' = IF ok THEN failedSince
                         ELSE failedSince \cup {FilePath(q.path)}
    /\ UNCHANGED <<env, fs, bundleCache, started, events, changes, built, invoked,
                   needRebuild, clearedUpTo, cacheStamp, lastName, buildVars>>

\* await result.outputs[0].text() resolves: store, return, respond
TextResolve(r) ==
    /\ reqs[r].pc = "text"
    /\ LET q == reqs[r]
           entryPath == FilePath(q.path)
           bundled == q.outputs[1] IN
       /\ bundleCache' = MapSet(bundleCache, entryPath, bundled)
       /\ Settle(r, Done([q EXCEPT !.ret = <<bundled>>],
                         Resp(200, "application/javascript", bundled)))
       /\ built' = [built EXCEPT ![entryPath] = <<bundled>>]
       /\ cacheStamp' = [cacheStamp EXCEPT ![entryPath] = q.stamp]
    /\ UNCHANGED <<env, fs, started, events, changes, succeeded, invoked,
                   needRebuild, failedSince, clearedUpTo, lastName, buildVars>>

\* ------------------------------------------------ file system and watcher
\* the filenames fs.watch may report for a change of f: its name, or none
WatchNames(f) == {<<WatchName(f)>>, <<>>, <<"">>}

\* the files that change while the server runs
Mutable == {FilePath(MainPath), FilePath(CssPath), FilePath(LogoPath)}

\* a file is written or deleted; a change under ./src raises a watch event
FsChange(f, nf) ==
    /\ changes < MaxChanges
    /\ nf # fs[f]
    /\ fs' = [fs EXCEPT ![f] = nf]
    /\ changes' = changes + 1
    /\ events' = IF f \in SrcFiles
                 THEN Append(events, [file |-> f, change |-> changes + 1])
                 ELSE events
    /\ UNCHANGED <<env, bundleCache, reqs, last, started, histVars, buildVars>>

\* the callback of watch("./src", ...) runs for the oldest pending event
WatchCallback(filename) ==
    /\ events # <<>>
    /\ filename \in WatchNames(Head(events).file)
    /\ events' = Tail(events)
    /\ lastName' = <<filename>>
    /\ IF Truthy(filename)
       THEN /\ bundleCache' = MapClear(bundleCache)
            /\ built' = [e \in DOMAIN built |-> <<>>]
            /\ needRebuild' = needRebuild \cup MapKeys(bundleCache)
            /\ clearedUpTo' = Head(events).change
       ELSE UNCHANGED <<bundleCache, built, needRebuild, clearedUpTo>>
    /\ UNCHANGED <<env, fs, reqs, last, started, changes, succeeded, invoked,
                   failedSince, cacheStamp, buildVars>>

\* ------------------------------------------------------------- build.ts
\* String.prototype.replace with a string pattern: the first occurrence only
ReplaceFirst(text, pattern, replacement) ==
    LET at == {i \in 1..Len(text) : text[i] = pattern} IN
    IF at = {} THEN text
    ELSE [text EXCEPT ![CHOOSE i \in at : \A j \in at : i <= j] = replacement]

UpdatedHtml(html) ==
    ReplaceFirst(ReplaceFirst(html, SrcCssRef, "/main.css"), SrcMainRef, "/main.js")

NoDist == [outputs |-> <<>>, html |-> <<>>]

\* the script calls Bun.build with the production define table
BuildInvoke ==
    /\ bpc = "start"
    /\ bdefine' = ProdDefine(env)
    /\ bpc' = "building"
    /\ UNCHANGED <<env, fs, srvVars, histVars, bresult, bhtml, dist>>

\* the status the script's process ends with: process.exit(1) and an
\* unhandled rejection both give 1, running to the end gives 0
ExitStatus(pc) == IF pc \in {"exit1", "crashed"} THEN 1 ELSE 0

\* the failure branch logs the errors and goes on
BuildSettleNoExit ==
    /\ bpc = "building"
    /\ \E res \in BunBuild(FilePath(MainPath), fs, bdefine) :
          /\ bresult' = [success |-> res.kind = "ok", outputs |-> res.outputs]
          /\ bpc' = IF res.kind = "throw" THEN "crashed" ELSE "report"
          /\ dist' = [dist EXCEPT !.outputs = res.outputs]
    /\ UNCHANGED <<env, fs, srvVars, histVars, bdefine, bhtml>>

\* await Bun.build(...) settles; a rejection ends the script, a result
\* without success reaches process.exit(1), a success is reported and its
\* outputs are in ./dist
BuildSettle ==
    /\ bpc = "building"
    /\ \E res \in BunBuild(FilePath(MainPath), fs, bdefine) :
          /\ bresult' = [success |-> res.kind = "ok", outputs |-> res.outputs]
          /\ bpc' = IF res.kind = "throw" THEN "crashed"
                    ELSE IF res.kind # "ok" THEN "exit1" ELSE "report"
          /\ dist' = [dist EXCEPT !.outputs = res.outputs]
    /\ UNCHANGED <<env, fs, srvVars, histVars, bdefine, bhtml>>

\* the outputs are listed and await Bun.file("./index.html").text() resolves
\* or, without the file, rejects
ReadHtml ==
    /\ bpc = "report"
    /\ IF fs[IndexHtml].exists
       THEN bhtml' = fs[IndexHtml].data /\ bpc' = "write"
       ELSE bhtml' = bhtml /\ bpc' = "crashed"
    /\ UNCHANGED <<env, fs, srvVars, histVars, bdefine, bresult, dist>>

\* await Bun.write("./dist/index.html", updatedHtml)
WriteHtml ==
    /\ bpc = "write"
    /\ dist' = [dist EXCEPT !.html = <<UpdatedHtml(bhtml)>>]
    /\ bpc' = "done"
    /\ UNCHANGED <<env, fs, srvVars, histVars, bdefine, bresult, bhtml>>

\* ------------------------------------------------------- specifications
EntryFiles == {FilePath(MainPath), FilePath(UtilPath)}

InitFs(main, html) ==
    [f \in Files |->
        IF f = FilePath(MainPath) THEN main
        ELSE IF f = IndexHtml THEN html
        ELSE IF f = FilePath(UtilPath) THEN File(UtilV1)
        ELSE IF f = FilePath(CssPath) THEN File(CssV1)
        ELSE File(<<"data">>)]

InitRest ==
    /\ bundleCache = <<>>
    /\ reqs = [r \in 1..MaxInFlight |-> IdleReq]
    /\ last = IdleReq
    /\ started = 0
    /\ events = <<>>
    /\ changes = 0
    /\ built = [e \in EntryFiles |-> <<>>]
    /\ succeeded = {}
    /\ invoked = {}
    /\ needRebuild = {}
    /\ failedSince = {}
    /\ clearedUpTo = 0
    /\ cacheStamp = [e \in EntryFiles |-> 0]
    /\ lastName = <<>>
    /\ bpc = "start"
    /\ bdefine = <<>>
    /\ bresult = [success |-> FALSE, outputs |-> <<>>]
    /\ bhtml = <<>>
    /\ dist = NoDist

\* the dev server starts on a tree whose entry compiles or not
Init ==
    /\ env = [pub |-> <<"pub_1">>, tok |-> <<"tok_1">>]
    /\ fs \in {InitFs(File(m), File(HtmlV1)) : m \in {MainV1, MainBad}}
    /\ InitRest

Next ==
    \/ \E r \in 1..MaxInFlight, p \in Paths : ReqStart(r, p)
    \/ \E r \in 1..MaxInFlight : PublicExists(r)
    \/ \E r \in 1..MaxInFlight : SrcExists(r)
    \/ \E r \in 1..MaxInFlight : BuildRead(r)
    \/ \E r \in 1..MaxInFlight : BuildResolve(r)
    \/ \E r \in 1..MaxInFlight : TextResolve(r)
    \/ \E f \in Mutable :
          \E nf \in {NoFile} \cup {File(c) : c \in Contents(f)} :
             FsChange(f, nf)
    \/ \E filename \in {<<WatchName(f)>> : f \in SrcFiles} \cup {<<>>, <<"">>} :
          WatchCallback(filename)

Spec == Init /\ [][Next]_vars

\* bun run build, for every environment and tree it can be started with
BuildInit ==
    /\ env \in {[pub |-> p, tok |-> t] : p \in PubValues, t \in TokValues}
    /\ fs \in {InitFs(m, h) :
                 m \in {NoFile} \cup {File(c) : c \in Contents(FilePath(MainPath))},
                 h \in {NoFile} \cup {File(c) : c \in Contents(IndexHtml)}}
    /\ InitRest

BuildNext == BuildInvoke \/ BuildSettle \/ ReadHtml \/ WriteHtml

BuildSpec == BuildInit /\ [][BuildNext]_vars

\* the dev server and the production build, each started with any of the
\* environments, on a tree that compiles
EnvInit ==
    /\ env \in {[pub |-> p, tok |-> t] : p \in PubValues, t \in TokValues}
    /\ fs = InitFs(File(MainV1), File(HtmlV1))
    /\ InitRest

EnvNext ==
    \/ \E r \in 1..MaxInFlight : ReqStart(r, MainPath)
    \/ \E r \in 1..MaxInFlight : SrcExists(r)
    \/ \E r \in 1..MaxInFlight : BuildRead(r)
    \/ \E r \in 1..MaxInFlight : BuildResolve(r)
    \/ \E r \in 1..MaxInFlight : TextResolve(r)
    \/ BuildInvoke
    \/ BuildSettle
    \/ ReadHtml
    \/ WriteHtml

EnvSpec == EnvInit /\ [][EnvNext]_vars

\* the handler whose Bun.build calls may never settle
Hung == 1

\* The event loop runs every continuation whose promise has settled: the
\* file.exists() and text() awaits of all handlers resolve. The Bun.build
\* calls of every handler but Hung settle.
Fairness ==
    /\ \A r \in 1..MaxInFlight :
          /\ WF_vars(PublicExists(r))
          /\ WF_vars(SrcExists(r))
          /\ WF_vars(TextResolve(r))
    /\ \A r \in (1..MaxInFlight) \ {Hung} :
          /\ WF_vars(BuildRead(r))
          /\ WF_vars(BuildResolve(r))

\* the requests and changes that bear on being answered: a script that is
\* bundled, a second script, a static file; the entry is rewritten or deleted
LivePaths == {MainPath, UtilPath, LogoPath}

LiveNext ==
    \/ \E r \in 1..MaxInFlight, p \in LivePaths : ReqStart(r, p)
    \/ \E r \in 1..MaxInFlight : PublicExists(r)
    \/ \E r \in 1..MaxInFlight : SrcExists(r)
    \/ \E r \in 1..MaxInFlight : BuildRead(r)
    \/ \E r \in 1..MaxInFlight : BuildResolve(r)
    \/ \E r \in 1..MaxInFlight : TextResolve(r)
    \/ \E nf \in {NoFile} \cup {File(c) : c \in Contents(FilePath(MainPath))} :
          FsChange(FilePath(MainPath), nf)
    \/ \E filename \in {<<WatchName(FilePath(MainPath))>>, <<>>} :
          WatchCallback(filename)

LiveSpec == Init /\ [][LiveNext]_vars /\ Fairness


\* ================================================================ claims
JsType == "application/javascript"

HasResponse == last.pc = "done"

\* C1: a get-or-build for a path whose bundle was stored since the last clear
\* returns exactly that text and calls Bun.build no further time.
C1_Memoized ==
    /\ \A r \in 1..MaxInFlight : reqs[r].memo = <<>>
    /\ (HasResponse /\ last.memo # <<>>) =>
          /\ last.inv = 0
          /\ last.ret = last.memo
          /\ last.resp = [status |-> 200, ctype |-> JsType, body |-> last.memo[1]]

C1_Witness == HasResponse /\ last.memo # <<>> /\ last.path = MainPath

\* the text Bun.build yields for the tree as it is now, if it compiles
CurrentBundle(entry) ==
    IF Compiles(entry, fs) THEN <<Concat(Modules(entry), fs, DevDefine(env))>> ELSE <<>>

\* C2: a request that starts after the watcher cleared the cache for a change
\* receives a bundle of the source as it is after that change, never one
\* whose build read the tree before the change.
C2_NeverStale ==
    (HasResponse /\ last.ret # <<>>) =>
       \/ last.stamp >= last.seen
       \/ last.ret = CurrentBundle(<<".">> \o last.path)

\* C3: the first get-or-build of a path after the clear that dropped its entry
\* calls Bun.build exactly once.
C3_RebuildAfterClear ==
    (HasResponse /\ last.afterClear) => last.inv = 1

\* C4: a get-or-build for a path Bun.build was never called for calls it
\* exactly once and, when it yields an output, returns that output's text and
\* has stored it under the entry path when it returns.
C4_FirstBuild ==
    [][(last' # last /\ last'.fresh) =>
          /\ last'.inv = 1
          /\ last'.kind = "ok" =>
                /\ last'.resp = [status |-> 200, ctype |-> JsType,
                                 body |-> last'.outputs[1]]
                /\ \E i \in 1..Len(bundleCache') :
                      bundleCache'[i] = [key |-> <<".">> \o last'.path,
                                         value |-> last'.outputs[1]]]_vars

C4_Witness == HasResponse /\ last.fresh /\ last.kind = "ok" /\ last.path = UtilPath

\* C5: the define table and the outputs of the production build are the same
\* for every value of the local access token, and the token's symbolic name
\* is replaced by the literal undefined.
C5_TokenFree ==
    bpc \notin {"start", "building"} =>
       /\ bdefine[TokSym] = "undefined"
       /\ \A t \in TokValues : ProdDefine([env EXCEPT !.tok = t]) = bdefine
       /\ bresult.success =>
             /\ \A t \in TokValues :
                   [kind |-> "ok", outputs |-> bresult.outputs]
                      \in BunBuild(FilePath(MainPath), fs,
                                   ProdDefine([env EXCEPT !.tok = t]))
             /\ \A i \in 1..Len(fs[FilePath(MainPath)].data) :
                   fs[FilePath(MainPath)].data[i] = TokSym
                      => bresult.outputs[1][i] = "undefined"

C5_Witness ==
    /\ bpc = "done"
    /\ bresult.success
    /\ env.tok = <<"tok_1">>
    /\ \E i \in 1..Len(fs[FilePath(MainPath)].data) :
          fs[FilePath(MainPath)].data[i] = TokSym

C7_CacheValid ==
    /\ \A i, j \in 1..Len(bundleCache) :
          bundleCache[i].key = bundleCache[j].key => i = j
    /\ \A i \in 1..Len(bundleCache) :
          <<bundleCache[i].key, bundleCache[i].value>> \in succeeded

C7_Witness ==
    /\ Len(bundleCache) = 2
    /\ \E p \in EntryFiles : Cardinality({e \in succeeded : e[1] = p}) = 2

\* C8: a watch event with a non-empty filename empties the cache whatever
\* file it names; one with an empty or missing filename leaves the cache as
\* it was.
C8_CoarseClear ==
    [][(events # <<>> /\ events' = Tail(events)) =>
          IF lastName'[1] # <<>> /\ lastName'[1][1] # ""
          THEN bundleCache' = <<>>
          ELSE bundleCache' = bundleCache]_vars

C8_Witness ==
    /\ lastName = << <<"index.css">> >>
    /\ FilePath(MainPath) \in needRebuild
    /\ bundleCache = <<>>

ErrorBodies ==
    {<<"Error bundling: " \o m>> : m \in {"Error: Failed to bundle", BuildFailedMessage}}

\* C9: a request for a .ts/.tsx path under /src/ whose file exists gets 200
\* with the JavaScript content type and the text get-or-build returned, or
\* 500 with "Error bundling: <message>", and nothing else.
C9_ScriptResponse ==
    (HasResponse /\ last.path \in {MainPath, UtilPath} /\ last.existed = "yes") =>
       \/ /\ last.ret # <<>>
          /\ last.resp = [status |-> 200, ctype |-> JsType, body |-> last.ret[1]]
       \/ /\ last.ret = <<>>
          /\ last.resp.status = 500
          /\ last.resp.body \in ErrorBodies

C9_Witness ==
    /\ HasResponse /\ last.path = MainPath /\ last.existed = "yes"
    /\ last.resp = [status |-> 500, ctype |-> "",
                    body |-> <<"Error bundling: Error: Failed to bundle">>]
    /\ MapHas(bundleCache, FilePath(UtilPath))

\* C10: a request for a path other than "/", an existing /public/ file and
\* an existing /src/ file ending in .css, .ts or .tsx gets 404 "Not Found".
C10_NotFound ==
    (HasResponse /\ last.path # RootPath
       /\ ~(last.path \in {LogoPath, MainPath, UtilPath, CssPath}
            /\ last.existed = "yes"))
    => last.resp = [status |-> 404, ctype |-> "", body |-> <<"Not Found">>]

C10_Witness == HasResponse /\ last.path = NotesPath /\ last.existed = "yes"


\* C11: a request for an existing .css file under /src/ is answered with the
\* file's content as it is and the text/css content type; it calls Bun.build
\* for nothing and leaves the bundle cache as it was, whatever the cache holds.
C11_CssAsIs ==
    [][(last' # last /\ last'.path = CssPath /\ fs[<<".">> \o CssPath].exists) =>
          /\ last'.resp = [status |-> 200, ctype |-> "text/css",
                           body |-> fs[<<".">> \o CssPath].data]
          /\ last'.inv = 0
          /\ bundleCache' = bundleCache
          /\ invoked' = invoked]_vars

C11_Witness ==
    /\ HasResponse /\ last.path = CssPath
    /\ last.resp = [status |-> 200, ctype |-> "text/css", body |-> CssV2]
    /\ bundleCache # <<>>

\* C12: a request under /public/ is answered with the file when it exists and
\* otherwise with 404 "Not Found", never by the /src/ or the root branch.
C12_PublicOrNotFound ==
    [][(last' # last /\ last'.path = LogoPath) =>
          /\ last'.inv = 0
          /\ last'.resp =
                IF fs[<<".">> \o LogoPath].exists
                THEN [status |-> 200, ctype |-> "",
                      body |-> fs[<<".">> \o LogoPath].data]
                ELSE [status |-> 404, ctype |-> "", body |-> <<"Not Found">>]]_vars

C12_Witness ==
    /\ HasResponse /\ last.path = LogoPath /\ last.existed = "no"
    /\ last.resp.status = 404


\* C13: both substitution tables define the three mode flags as literals of
\* their build target: the table of the dev server's Bun.build call has
\* DEV = true, PROD = false and MODE = "development", the table of the
\* production build has DEV = false, PROD = true and MODE = "production".
C13_ModeFlags ==
    /\ (\E r \in 1..MaxInFlight : reqs[r].inv = 1) =>
          LET d == DevDefine(env) IN
          /\ {DevSym, ProdSym, ModeSym} \subseteq DOMAIN d
          /\ d[DevSym] = "true"
          /\ d[ProdSym] = "false"
          /\ d[ModeSym] = "\"development\""
    /\ bpc # "start" =>
          /\ {DevSym, ProdSym, ModeSym} \subseteq DOMAIN bdefine
          /\ bdefine[DevSym] = "false"
          /\ bdefine[ProdSym] = "true"
          /\ bdefine[ModeSym] = "\"production\""


\* C14: a production build whose result is not successful ends the script with
\* a non-zero exit status before index.html is read or written, so
\* dist/index.html exists only after a successful build.
C14_FailureFatal ==
    /\ (bpc \notin {"start", "building"} /\ ~bresult.success) =>
          /\ bpc \in {"exit1", "crashed"}
          /\ ExitStatus(bpc) # 0
          /\ dist.html = <<>>
    /\ bpc \in {"write", "done"} => bresult.success
    /\ dist.html # <<>> => bresult.success /\ bpc = "done"

C14_Witness ==
    /\ bpc = "exit1" /\ ~bresult.success
    /\ fs[IndexHtml].exists /\ dist.html = <<>>


\* the string literal of an environment value, the empty one when it is unset
Literal(v) == IF v = <<>> THEN "\"\"" ELSE "\"" \o v[1] \o "\""

\* every place where main.tsx names sym holds lit in the bundled text
Replaced(text, sym, lit) ==
    \A i \in 1..Len(MainV1) : MainV1[i] = sym => text[i] = lit

\* C15: in the dev bundle and in the production bundle the public key's name
\* is replaced by the string literal of the environment value, by the empty
\* string literal when the variable is unset; in the dev bundle the access
\* token's name is replaced by the string literal of its environment value.
C15_KeyLiterals ==
    /\ (HasResponse /\ last.resp.status = 200) =>
          /\ Replaced(last.resp.body, PubSym, Literal(env.pub))
          /\ Replaced(last.resp.body, TokSym, Literal(env.tok))
    /\ \A i \in 1..Len(bundleCache) :
          /\ Replaced(bundleCache[i].value, PubSym, Literal(env.pub))
          /\ Replaced(bundleCache[i].value, TokSym, Literal(env.tok))
    /\ bresult.success =>
          Replaced(dist.outputs[1], PubSym, Literal(env.pub))

C15_Witness ==
    /\ env = [pub |-> <<>>, tok |-> <<"tok_2">>]
    /\ HasResponse /\ last.resp.status = 200
    /\ last.resp.body[2] = "\"\"" /\ last.resp.body[3] = "\"tok_2\""
    /\ bpc = "done" /\ dist.outputs[1][2] = "\"\""


\* what the path and the file system alone make of a request that no bundle
\* answers
RouteOf(p, files) ==
    IF p = RootPath
    THEN [status |-> 200, ctype |-> "", body |-> files[IndexHtml].data]
    ELSE IF p \in {LogoPath, CssPath} /\ files[<<".">> \o p].exists
         THEN [status |-> 200,
               ctype |-> IF p = CssPath THEN "text/css" ELSE "",
               body |-> files[<<".">> \o p].data]
         ELSE [status |-> 404, ctype |-> "", body |-> <<"Not Found">>]

\* C16: a request for "/", for a /public/ path, for a /src/ .css file or for a
\* path that ends in 404 leaves the bundle cache unchanged and calls Bun.build
\* for nothing, and its response is determined by the path and the file
\* system alone, whatever the cache holds and whatever was requested before.
C16_StatelessRoutes ==
    [][(/\ last' # last
        /\ last'.path \notin {MainPath, UtilPath} \/ last'.resp.status = 404) =>
          /\ last'.resp = RouteOf(last'.path, fs)
          /\ last'.path \in {MainPath, UtilPath} =>
                ~fs[<<".">> \o last'.path].exists
          /\ last'.inv = 0
          /\ bundleCache' = bundleCache
          /\ invoked' = invoked]_vars

C16_Witness ==
    /\ HasResponse /\ last.path = RootPath
    /\ last.resp = [status |-> 200, ctype |-> "", body |-> HtmlV1]
    /\ bundleCache # <<>>
    /\ \E r \in 1..MaxInFlight : reqs[r].pc = "build"


\* the handlers that are inside bundleEntry after a cache miss
Building(r) == reqs[r].pc \in {"build", "built", "text"}

\* C17: two bundleEntry calls for one uncached path that are in flight
\* together, over an unchanged tree, each make their own Bun.build call, both
\* return the same text, and once the second has finished the cache holds
\* exactly one entry for the path, with that text, whichever finishes first.
C17_NoDeduplication ==
    [][\A r \in 1..MaxInFlight :
          /\ (\A o \in 1..MaxInFlight :
                 (o # r /\ Building(r) /\ Building(o)
                    /\ reqs[o].path = reqs[r].path) =>
                       reqs[r].inv = 1 /\ reqs[o].inv = 1)
          /\ (/\ reqs[r].pc = "text" /\ reqs'[r].pc = "idle"
              /\ HasResponse /\ last.path = reqs[r].path
              /\ last.inv = 1 /\ last.resp.status = 200
              /\ last.stamp = reqs[r].stamp) =>
                LET entry == <<".">> \o reqs[r].path
                    at == {i \in 1..Len(bundleCache') :
                              bundleCache'[i].key = entry} IN
                /\ last'.inv = 1
                /\ last'.resp = last.resp
                /\ Cardinality(at) = 1
                /\ \A i \in at : bundleCache'[i].value = last.resp.body]_vars

C17_Witness ==
    /\ started = 2 /\ changes = 0
    /\ \A r \in 1..MaxInFlight : reqs[r].pc = "idle"
    /\ HasResponse /\ last.path = MainPath /\ last.resp.status = 200
    /\ last.inv = 1 /\ ~last.fresh /\ last.memo = <<>>
    /\ Len(bundleCache) = 1 /\ bundleCache[1].value = last.resp.body


\* C18: a request whose Bun.build calls settle is eventually answered, once,
\* also while another handler's Bun.build call for the same or another path
\* never settles; the handler of a call that never settles is the only one
\* that stays unanswered, and it stalls nowhere but inside that call.
C18_Answered ==
    /\ \A r \in (1..MaxInFlight) \ {Hung} :
          (reqs[r].pc # "idle") ~> (reqs[r].pc = "idle")
    /\ (reqs[Hung].pc # "idle") ~> (reqs[Hung].pc \in {"idle", "build", "built"})
    /\ [][\A r \in 1..MaxInFlight :
             (reqs[r].pc # "idle" /\ reqs'[r].pc = "idle") =>
                /\ last'.pc = "done" /\ last'.path = reqs[r].path
                /\ last'.resp.status \in {200, 404, 500}
                /\ \A o \in (1..MaxInFlight) \ {r} : reqs'[o] = reqs[o]]_vars

C18_Witness ==
    /\ reqs[Hung].pc = "build" /\ reqs[Hung].fresh
    /\ HasResponse /\ last.path = reqs[Hung].path
    /\ last.inv = 1 /\ ~last.fresh /\ last.resp.status = 200


\* the cache holds a bundle for the entry
Cached(entry) == \E i \in 1..Len(bundleCache) : bundleCache[i].key = entry

\* C19: the existence check comes before the cache lookup: a request for a
\* /src/ .ts or .tsx path whose file is gone is answered 404 "Not Found" even
\* while the cache holds a bundle for the path, and a cached bundle is served
\* only when the file exists at the check.
C19_ExistsBeforeCache ==
    [][\A r \in 1..MaxInFlight :
          (/\ reqs[r].pc = "srcExists" /\ reqs'[r].pc # "srcExists"
           /\ reqs[r].path \in {MainPath, UtilPath}) =>
              LET entry == <<".">> \o reqs[r].path IN
              IF ~fs[entry].exists
              THEN /\ reqs'[r].pc = "idle"
                   /\ last'.path = reqs[r].path
                   /\ last'.resp = [status |-> 404, ctype |-> "",
                                    body |-> <<"Not Found">>]
                   /\ bundleCache' = bundleCache
              ELSE reqs'[r].pc = "idle" =>
                      /\ Cached(entry)
                      /\ last'.resp.status = 200
                      /\ \E i \in 1..Len(bundleCache) :
                            /\ bundleCache[i].key = entry
                            /\ bundleCache[i].value = last'.resp.body]_vars

C19_Witness ==
    /\ HasResponse /\ last.path = MainPath /\ last.resp.status = 404
    /\ ~fs[<<".">> \o MainPath].exists
    /\ Cached(<<".">> \o MainPath)


\* C20: after a successful production build dist/index.html is index.html
\* with every "/src/main.tsx" turned into "/main.js" and every
\* "/src/index.css" into "/main.css": neither source path remains and the
\* rest of the document is unchanged.
C20_AllRewritten ==
    bpc = "done" =>
       LET html == fs[IndexHtml].data
           out == dist.html[1] IN
       /\ Len(out) = Len(html)
       /\ \A i \in 1..Len(html) :
             out[i] = IF html[i] = "/src/main.tsx" THEN "/main.js"
                      ELSE IF html[i] = "/src/index.css" THEN "/main.css"
                      ELSE html[i]
       /\ \A i \in 1..Len(out) : out[i] \notin {"/src/main.tsx", "/src/index.css"}

====
